---- MODULE Spec2Model ----
(***************************************************************************)
(* Model of the ping_pong line-echo server (src/ping_pong/src/main.rs).    *)
(*                                                                         *)
(* The program state is the Pong handler (the Slab of Connections), the    *)
(* event loop's registration table and run flag, and the sockets: for each *)
(* accepted socket the bytes the client has sent and the server has not    *)
(* read yet, whether the client has closed, and (as history) the bytes     *)
(* read from and written to it.  One action is one call of Pong::ready by  *)
(* the event loop, for one result of the non-blocking socket call it       *)
(* makes, or one step of a client.                                         *)
(***************************************************************************)
EXTENDS Naturals, Integers, Sequences, FiniteSets, TLC

(* --------------------------- bounds ----------------------------------- *)

\* Slots of the Slab (1024 in Pong::new, scaled down).
Capacity == 2

\* Steps all clients together take in one run: connecting, sending one byte,
\* closing.
MaxClientSteps == 5

(* --------------------------- constants -------------------------------- *)

\* const SERVER: mio::Token = mio::Token(0)
SERVER == 0

\* Variant: a Slab that starts at the listening socket's token.
SlabStart_from_server == SERVER

\* First token of the Slab: Slab::new_starting_at(mio::Token(1), ..)
SlabStart == 1

\* b'\n'
NL == 10

\* The bytes clients send: the newline and one other byte.
Byte == {NL, 97}

\* Every token the event loop may carry.
Tokens == 0 .. (Capacity + 1)

VARIABLES
    status,       \* "running" | "shutdown" (event_loop.shutdown()) | "panicked"
    connections,  \* Pong.connections: the Slab, a function live token -> Connection
    interest,     \* event loop registrations: token -> armed interest
    pending,      \* connections waiting in the listening socket's accept queue
    clientSteps,  \* steps the clients may still take
    last          \* the step taken last: [op, token], and for an end-of-file
                  \* read the socket as it was

vars == <<status, connections, interest, pending, clientSteps, last>>

(* --------------------------- State ------------------------------------ *)

\* enum State { Reading(Vec<u8>), Writing(Take<Cursor<Vec<u8>>>), Closed }
\* pos is the Cursor's position, limit the end of the Take (exclusive).
Reading(buf) == [tag |-> "Reading", buf |-> buf, pos |-> 0, limit |-> 0]
Writing(buf, pos, limit) == [tag |-> "Writing", buf |-> buf, pos |-> pos, limit |-> limit]
Closed == [tag |-> "Closed", buf |-> <<>>, pos |-> 0, limit |-> 0]

\* iter().position(|b| *b == b'\n'): the 0-based index of the first newline,
\* -1 for None.
RECURSIVE position_from(_, _)
position_from(buf, i) ==
    IF i > Len(buf) THEN -1
    ELSE IF buf[i] = NL THEN i - 1
    ELSE position_from(buf, i + 1)

position(buf) == position_from(buf, 1)

\* Variant: the limit stops before the newline.
TakeLimit_exclusive(pos) == pos

\* Take::new(buf, pos + 1): the line is limited to the newline, inclusive.
TakeLimit(pos) == pos + 1

\* Variant: the newline is never looked for.
try_transition_to_writing_never(st) == st

\* State::try_transition_to_writing
try_transition_to_writing(st) ==
    LET pos == position(st.buf) IN
    IF pos >= 0 THEN Writing(st.buf, 0, TakeLimit(pos)) ELSE st

\* Variant: the written bytes are not dropped.
drain_to_nothing(vec, count) == vec

\* drain_to: vec.remove(0), count times.
RECURSIVE drain_to(_, _)
drain_to(vec, count) ==
    IF count = 0 THEN vec ELSE drain_to(Tail(vec), count - 1)

\* Variant: the write buffer always counts as consumed.
has_remaining_never(st) == FALSE

\* Take::has_remaining of the write buffer
has_remaining(st) == st.pos < st.limit

\* Variant: the rest of the buffer is not searched for a second line.
try_transition_to_reading_no_rescan(st) ==
    IF ~has_remaining(st)
    THEN Reading(drain_to(st.buf, st.pos))
    ELSE st

\* Variant: the connection stays in Writing when the line is sent.
try_transition_to_reading_never(st) == st

\* State::try_transition_to_reading
try_transition_to_reading(st) ==
    IF ~has_remaining(st)
    THEN try_transition_to_writing(Reading(drain_to(st.buf, st.pos)))
    ELSE st

\* Variant: writable whatever the state.
event_set_writable(st) == "writable"

\* Variant: readable interest whatever the state.
event_set_readable(st) == "readable"

\* State::event_set
event_set(st) ==
    CASE st.tag = "Reading" -> "readable"
      [] st.tag = "Writing" -> "writable"
      [] OTHER -> "none"

\* Variant: the Cursor without the Take, the whole rest of the buffer.
write_bytes_unlimited(st) == SubSeq(st.buf, st.pos + 1, Len(st.buf))

\* The bytes try_write_buf offers the socket: the Take's bytes(), from the
\* cursor to the limit.
write_bytes(st) == SubSeq(st.buf, st.pos + 1, st.limit)

(* --------------------------- Connection ------------------------------- *)

\* A TcpStream as the server sees it: inflight are the bytes the client sent
\* that are not read yet; received and transmitted are the history of the
\* bytes read from and written to the socket.
NewSocket == [inflight |-> <<>>, peer_closed |-> FALSE,
              received |-> <<>>, transmitted |-> <<>>]

\* Connection::new
Connection_new(socket, token) ==
    [socket |-> socket, token |-> token, state |-> Reading(<<>>)]

\* Variant: no connection is ever seen as closed.
is_closed_never(conn) == FALSE

\* Connection::is_closed
is_closed(conn) == conn.state.tag = "Closed"

\* Results of a non-blocking call: Ok(Some(n)), Ok(None), Err(e).
Some(n) == [kind |-> "some", n |-> n]
None == [kind |-> "none", n |-> 0]
Err == [kind |-> "err", n |-> 0]

\* What a handler call leaves: the connection, whether it called reregister,
\* whether it panicked.
Done(conn, rearm) == [conn |-> conn, rearm |-> rearm, panic |-> FALSE]
Panic(conn) == [conn |-> conn, rearm |-> FALSE, panic |-> TRUE]

\* Variant: the connection is left without a registration.
WouldBlock_no_reregister(conn) == Done(conn, FALSE)

\* Ok(None) of try_read_buf and try_write_buf: the socket was not ready, the
\* connection is left as it is and reregister is called.
WouldBlock(conn) == Done(conn, TRUE)

\* Connection::read, for the result io of try_read_buf.
Connection_read(conn, io) ==
    CASE io.kind = "some" /\ io.n = 0 ->
            Done([conn EXCEPT !.state = Closed], FALSE)
      [] io.kind = "some" /\ io.n > 0 ->
            LET bytes == SubSeq(conn.socket.inflight, 1, io.n)
                sock == [conn.socket EXCEPT
                            !.inflight = SubSeq(@, io.n + 1, Len(@)),
                            !.received = @ \o bytes]
                st == [conn.state EXCEPT !.buf = @ \o bytes]
            IN Done([conn EXCEPT !.socket = sock,
                                 !.state = try_transition_to_writing(st)], TRUE)
      [] io.kind = "none" -> WouldBlock(conn)
      [] OTHER -> Panic(conn)

\* Connection::write, for the result io of try_write_buf.
Connection_write(conn, io) ==
    CASE io.kind = "some" ->
            LET bytes == SubSeq(write_bytes(conn.state), 1, io.n)
                sock == [conn.socket EXCEPT !.transmitted = @ \o bytes]
                st == [conn.state EXCEPT !.pos = @ + io.n]
            IN Done([conn EXCEPT !.socket = sock,
                                 !.state = try_transition_to_reading(st)], TRUE)
      [] io.kind = "none" -> WouldBlock(conn)
      [] OTHER -> Panic(conn)

\* Connection::ready
Connection_ready(conn, events, io) ==
    CASE conn.state.tag = "Reading" ->
            IF events = "readable" THEN Connection_read(conn, io) ELSE Panic(conn)
      [] conn.state.tag = "Writing" ->
            IF events = "writable" THEN Connection_write(conn, io) ELSE Panic(conn)
      [] OTHER -> Panic(conn)

(* --------------------------- Slab ------------------------------------- *)

Live == DOMAIN connections

\* The tokens the Slab hands out.
SlabTokens == SlabStart .. (SlabStart + Capacity - 1)

\* Variant: a token is handed out whether or not it is in use.
FreeTokens_any == SlabTokens

\* The vacant entries of the Slab.
FreeTokens == SlabTokens \ Live

Insert(conns, token, conn) ==
    [t \in DOMAIN conns \cup {token} |-> IF t = token THEN conn ELSE conns[t]]

\* Variant: the connection is left in the Slab.
Remove_nothing(conns, token) == conns

\* Slab::remove
Remove(conns, token) ==
    [t \in DOMAIN conns \ {token} |-> conns[t]]

EmptySlab == [t \in {} |-> Closed]

(* --------------------------- Init ------------------------------------- *)

\* main: the listening socket is registered under SERVER, the Slab is empty.
Init ==
    /\ status = "running"
    /\ connections = EmptySlab
    /\ interest = [t \in Tokens |-> IF t = SERVER THEN "readable" ELSE "none"]
    /\ pending = 0
    /\ clientSteps = MaxClientSteps
    /\ last = [op |-> "init", token |-> SERVER]

(* --------------------------- clients ---------------------------------- *)

Step(op, token) == [op |-> op, token |-> token]

\* A client connects: the connection waits in the accept queue.
ClientConnect ==
    /\ status = "running"
    /\ clientSteps > 0
    /\ clientSteps' = clientSteps - 1
    /\ pending' = pending + 1
    /\ last' = Step("connect", SERVER)
    /\ UNCHANGED <<status, connections, interest>>

\* The client of connection token sends one byte.
ClientSend(token) ==
    /\ status = "running"
    /\ token \in Live
    /\ ~connections[token].socket.peer_closed
    /\ clientSteps > 0
    /\ clientSteps' = clientSteps - 1
    /\ \E b \in Byte :
          connections' = [connections EXCEPT
                             ![token].socket.inflight = Append(@, b)]
    /\ last' = Step("send", token)
    /\ UNCHANGED <<status, interest, pending>>

\* The client of connection token closes its end.
ClientClose(token) ==
    /\ status = "running"
    /\ token \in Live
    /\ ~connections[token].socket.peer_closed
    /\ clientSteps > 0
    /\ clientSteps' = clientSteps - 1
    /\ connections' = [connections EXCEPT ![token].socket.peer_closed = TRUE]
    /\ last' = Step("close", token)
    /\ UNCHANGED <<status, interest, pending>>

(* --------------------------- Pong::ready, SERVER ---------------------- *)

\* The process ends: event_loop.run returns after shutdown(), or a panic
\* unwinds main.  The Pong, its Slab and every socket are dropped.
NoInterest == [t \in Tokens |-> "none"]

Halt(how) ==
    /\ status' = how
    /\ connections' = EmptySlab
    /\ interest' = NoInterest
    /\ pending' = 0

\* The event loop calls the handler only while it runs, and for the
\* listening socket whenever it is registered (level-triggered).
ServerEvent ==
    /\ status = "running"
    /\ interest[SERVER] = "readable"

\* Variant: the new connection is not registered.
AcceptInterest_none == "none"

\* Variant: registered for the wrong event.
AcceptInterest_writable == "writable"

\* The interest a new connection is registered with: EventSet::readable().
AcceptInterest == "readable"

\* accept() = Ok(Some(socket)): insert_with(..).unwrap(), then register_opt
\* with readable interest.  unwrap panics when the Slab is full.
Accept ==
    /\ ServerEvent
    /\ pending > 0
    /\ IF FreeTokens = {}
       THEN /\ Halt("panicked")
            /\ last' = Step("accept_full", SERVER)
       ELSE \E token \in FreeTokens :
            /\ connections' = Insert(connections, token,
                                     Connection_new(NewSocket, token))
            /\ interest' = [interest EXCEPT ![token] = AcceptInterest]
            /\ pending' = pending - 1
            /\ last' = Step("accept", token)
            /\ UNCHANGED status
    /\ UNCHANGED clientSteps

\* accept() = Ok(None): the socket was not actually ready.
AcceptNone ==
    /\ ServerEvent
    /\ pending = 0
    /\ last' = Step("accept_none", SERVER)
    /\ UNCHANGED <<status, connections, interest, pending, clientSteps>>

\* Variant: the error is logged and the loop runs on.
AcceptErrStatus_ignored == "running"

\* accept() = Err(e): event_loop.shutdown().
AcceptErrStatus == "shutdown"

AcceptErr ==
    /\ ServerEvent
    /\ IF AcceptErrStatus = "running"
       THEN UNCHANGED <<status, connections, interest, pending>>
       ELSE Halt(AcceptErrStatus)
    /\ last' = Step("accept_err", SERVER)
    /\ UNCHANGED clientSteps

(* --------------------------- Pong::ready, a client token -------------- *)

\* Pong::ready for a token other than SERVER, the socket call returning io.
\* The registration is one-shot: the event disarms it, and the event kind is
\* the interest that was armed.  Indexing the Slab with a token that is not
\* live panics.
Dispatch(token, io) ==
    /\ status = "running"
    /\ token # SERVER
    /\ interest[token] # "none"
    /\ IF token \notin Live
       THEN Halt("panicked")
       ELSE LET r == Connection_ready(connections[token], interest[token], io) IN
            IF r.panic
            THEN Halt("panicked")
            ELSE /\ connections' =
                       IF is_closed(r.conn) THEN Remove(connections, token)
                       ELSE [connections EXCEPT ![token] = r.conn]
                 /\ interest' = [interest EXCEPT ![token] =
                       IF r.rearm THEN event_set(r.conn.state) ELSE "none"]
                 /\ UNCHANGED <<status, pending>>
    /\ UNCHANGED clientSteps

IsReading(token) == token \in Live /\ connections[token].state.tag = "Reading"
IsWriting(token) == token \in Live /\ connections[token].state.tag = "Writing"

\* try_read_buf = Ok(Some(n)), n > 0: n of the bytes in flight are read.
ReadData(token) ==
    /\ IsReading(token)
    /\ \E n \in 1 .. Len(connections[token].socket.inflight) :
          Dispatch(token, Some(n))
    /\ last' = Step("read", token)

\* try_read_buf = Ok(Some(0)): the client has closed and nothing is in flight.
ReadEof(token) ==
    /\ IsReading(token)
    /\ connections[token].socket.inflight = <<>>
    /\ connections[token].socket.peer_closed
    /\ Dispatch(token, Some(0))
    /\ last' = [op |-> "read_eof", token |-> token,
                socket |-> connections[token].socket]

\* try_read_buf = Ok(None): nothing to read yet.
ReadWouldBlock(token) ==
    /\ IsReading(token)
    /\ connections[token].socket.inflight = <<>>
    /\ ~connections[token].socket.peer_closed
    /\ Dispatch(token, None)
    /\ last' = Step("read_wouldblock", token)

\* try_read_buf = Err(e)
ReadErr(token) ==
    /\ IsReading(token)
    /\ Dispatch(token, Err)
    /\ last' = Step("read_err", token)

\* try_write_buf = Ok(Some(n)): the socket takes n of the bytes offered.
WriteData(token) ==
    /\ IsWriting(token)
    /\ \E n \in 1 .. Len(write_bytes(connections[token].state)) :
          Dispatch(token, Some(n))
    /\ last' = Step("write", token)

\* try_write_buf = Ok(None): the socket takes nothing now.
WriteWouldBlock(token) ==
    /\ IsWriting(token)
    /\ Dispatch(token, None)
    /\ last' = Step("write_wouldblock", token)

\* try_write_buf = Err(e)
WriteErr(token) ==
    /\ IsWriting(token)
    /\ Dispatch(token, Err)
    /\ last' = Step("write_err", token)

(* --------------------------- specification ---------------------------- *)

Next ==
    \/ ClientConnect
    \/ \E token \in Tokens : ClientSend(token)
    \/ \E token \in Tokens : ClientClose(token)
    \/ Accept
    \/ AcceptNone
    \/ AcceptErr
    \/ \E token \in Tokens : ReadData(token)
    \/ \E token \in Tokens : ReadEof(token)
    \/ \E token \in Tokens : ReadWouldBlock(token)
    \/ \E token \in Tokens : ReadErr(token)
    \/ \E token \in Tokens : WriteData(token)
    \/ \E token \in Tokens : WriteWouldBlock(token)
    \/ \E token \in Tokens : WriteErr(token)

Spec == Init /\ [][Next]_vars

\* The event loop keeps delivering the readiness a connection has armed, and
\* the client's socket keeps taking bytes: a read of bytes in flight and a
\* write that makes progress are not postponed for ever.
Fairness ==
    \A token \in SlabTokens :
        WF_vars(ReadData(token)) /\ WF_vars(WriteData(token))

LiveSpec == Spec /\ Fairness


(* --------------------------- claims ----------------------------------- *)

IsPrefix(p, s) == Len(p) <= Len(s) /\ SubSeq(s, 1, Len(p)) = p

HasNewline(s) == \E i \in 1 .. Len(s) : s[i] = NL

\* The position of the last newline of s, 0 when it has none.
LastNewline(s) ==
    IF HasNewline(s)
    THEN CHOOSE i \in 1 .. Len(s) : s[i] = NL /\ \A j \in (i + 1) .. Len(s) : s[j] # NL
    ELSE 0

\* s cut after its last newline: its complete lines.
CompleteLines(s) == SubSeq(s, 1, LastNewline(s))

Sock(token) == connections[token].socket
St(token) == connections[token].state

\* C1: in every reachable state, the bytes transmitted to a client are a
\* prefix of the bytes received from that client cut after the last received
\* newline: nothing is duplicated, dropped or reordered.
C1_EchoIsPrefixOfReceivedLines ==
    \A token \in Live :
        IsPrefix(Sock(token).transmitted, CompleteLines(Sock(token).received))

\* A line is partly transmitted while a second line and a partial third are
\* already received.
C1_Witness ==
    \E token \in Live :
        /\ Len(Sock(token).transmitted) = 1
        /\ Len(CompleteLines(Sock(token).received)) >= 3
        /\ Len(Sock(token).received) > Len(CompleteLines(Sock(token).received))

\* Everything the client of token has sent so far.
Input(token) == Sock(token).received \o Sock(token).inflight

Newlines(s) == Cardinality({i \in 1 .. Len(s) : s[i] = NL})

Behind(token) ==
    token \in Live /\ Sock(token).transmitted # CompleteLines(Input(token))

CaughtUp(token) ==
    token \in Live /\ Sock(token).transmitted = CompleteLines(Input(token))

\* C2: for every input and every chunking of it, when the event loop keeps
\* delivering armed readiness and the client keeps taking writes, a connection
\* that has not yet transmitted all the complete lines of its input comes to
\* have transmitted exactly the input up to its last newline, unless the
\* server stops first; and a connection is only reaped when it has.
C2_AllLinesEventuallyEchoed ==
    /\ \A token \in SlabTokens :
          Behind(token) ~> (CaughtUp(token) \/ token \notin Live \/ status # "running")
    /\ [][\A token \in SlabTokens :
             (token \in Live /\ token \notin Live' /\ status' = "running")
                => CaughtUp(token)]_vars

\* Two lines have been echoed completely.
C2_Witness ==
    \E token \in Live :
        /\ CaughtUp(token)
        /\ Newlines(Sock(token).transmitted) >= 2
        /\ Len(Sock(token).transmitted) >= 3

\* A connection whose client has sent no newline has transmitted nothing.
NoNewlineNoEcho ==
    \A token \in Live :
        ~HasNewline(Input(token)) => Sock(token).transmitted = <<>>

\* C3: a connection whose client sends bytes without a newline and closes
\* transmits nothing; the zero-length read makes it Closed, and the same
\* dispatch removes its handle from the Registry, disarmed and free for reuse.
C3_PartialLineThenCloseIsReaped ==
    [][/\ NoNewlineNoEcho
       /\ NoNewlineNoEcho'
       /\ \A token \in Tokens :
             (last'.op = "read_eof" /\ last'.token = token)
                => /\ token \in Live
                   /\ Sock(token).peer_closed
                   /\ token \notin Live'
                   /\ token \in FreeTokens'
                   /\ interest'[token] = "none"
                   /\ status' = "running"]_vars

\* A connection that received a partial line only has just been reaped.
C3_Witness ==
    /\ last.op = "read_eof"
    /\ last.token \notin Live
    /\ last.socket.received # <<>>
    /\ ~HasNewline(last.socket.received)
    /\ last.socket.transmitted = <<>>
    /\ status = "running"

\* The bytes of the write buffer after the line being written.
BeyondLimit(st) == SubSeq(st.buf, st.limit + 1, Len(st.buf))

\* The step is a write on token that transmits the rest of the line.
CompletesLine(token) ==
    /\ last'.op = "write"
    /\ last'.token = token
    /\ token \in Live
    /\ token \in Live'
    /\ St(token).tag = "Writing"
    /\ Len(Sock(token).transmitted') = Len(Sock(token).transmitted)
                                          + (St(token).limit - St(token).pos)

\* C4: once a line is fully transmitted and the rest of the buffer holds no
\* newline, the connection is in Reading with readable interest; a connection
\* in Reading transmits nothing, and leaves Reading for Writing only by a read
\* that appends bytes.
C4_DrainedConnectionWaitsForInput ==
    [][\A token \in SlabTokens :
          /\ (CompletesLine(token) /\ ~HasNewline(BeyondLimit(St(token))))
                => /\ St(token)'.tag = "Reading"
                   /\ St(token)'.buf = BeyondLimit(St(token))
                   /\ interest'[token] = "readable"
          /\ (token \in Live /\ token \in Live' /\ St(token).tag = "Reading")
                => /\ Sock(token)'.transmitted = Sock(token).transmitted
                   /\ St(token)'.tag = "Writing"
                         => /\ last'.op = "read"
                            /\ Len(St(token)'.buf) > Len(St(token).buf)]_vars

\* A line has just been transmitted and a partial next line is left over.
C4_Witness ==
    /\ last.op = "write"
    /\ last.token \in Live
    /\ St(last.token).tag = "Reading"
    /\ St(last.token).buf # <<>>
    /\ Sock(last.token).transmitted # <<>>
    /\ interest[last.token] = "readable"

\* The connections other than token are left as they were.
OthersUntouched(token) ==
    \A other \in Live \ {token} :
        /\ other \in Live'
        /\ connections'[other] = connections[other]
        /\ interest'[other] = interest[other]

\* C5: a connection accepted while the Registry holds Capacity live
\* connections is refused, and the server keeps running with every existing
\* connection and registration as it was.
C5_FullRegistryRefusesAndKeepsRunning ==
    [][(last'.op \in {"accept", "accept_full"} /\ Cardinality(Live) = Capacity)
          => /\ status' = "running"
             /\ connections' = connections
             /\ interest' = interest]_vars

\* C6: a read or write that fails with an I/O error closes and reaps that
\* connection only; the server keeps running and the other connections and
\* the listening socket are left as they were.
C6_IoErrorClosesOnlyThatConnection ==
    [][\A token \in Tokens :
          (last'.op \in {"read_err", "write_err"} /\ last'.token = token)
             => /\ status' = "running"
                /\ token \notin Live'
                /\ OthersUntouched(token)
                /\ interest'[SERVER] = interest[SERVER]]_vars

HandlerOps ==
    {"accept", "accept_full", "accept_none", "accept_err", "read", "read_eof",
     "read_wouldblock", "read_err", "write", "write_wouldblock", "write_err"}

\* C7: an accept that fails with an I/O error shuts the event loop down, and
\* from then on no connection is accepted and no event is dispatched; an
\* accept that finds nothing pending changes nothing and the server runs on.
C7_AcceptErrorShutsDown ==
    [][/\ last'.op = "accept_err" => status' = "shutdown"
       /\ status = "shutdown" => last'.op \notin HandlerOps
       /\ last'.op = "accept_none"
             => /\ pending = 0
                /\ UNCHANGED <<status, connections, interest, pending>>]_vars

\* The accept has failed while clients were connected or waiting.
C7_Witness ==
    /\ last.op = "accept_err"
    /\ status = "shutdown"
    /\ clientSteps < MaxClientSteps

\* C8: handle 0 belongs to the listening socket only; every live client
\* handle is in 1..Capacity and is the handle its connection carries, so no
\* two live connections share one, and at most Capacity connections are live.
C8_HandlesAreClientOnlyAndBounded ==
    /\ SERVER \notin Live
    /\ status = "running" => interest[SERVER] = "readable"
    /\ \A token \in Live :
          /\ token \in 1 .. Capacity
          /\ connections[token].token = token
    /\ \A a, b \in Live : connections[a].token = connections[b].token => a = b
    /\ \A token \in Tokens \ (Live \cup {SERVER}) : interest[token] = "none"
    /\ Cardinality(Live) <= Capacity

\* Every handle of the Registry is live.
C8_Witness ==
    /\ Cardinality(Live) = Capacity
    /\ Live = 1 .. Capacity

\* C9, as claimed: one readiness event of the listening socket accepts every
\* connection pending at that moment.
C9_AcceptsAllPending ==
    [][last'.op \in {"accept", "accept_full"} => pending' = 0]_vars

\* C9, amended: one readiness event of the listening socket calls accept
\* once.  It takes exactly one connection from the accept queue when one is
\* pending, none otherwise; the connection is inserted under a free handle in
\* Reading with an empty buffer and registered with readable interest, when
\* the Registry has a free handle; the connections still pending stay in the
\* queue.  No step adds more than one connection to the Registry.
C9_AcceptsOnePerEvent ==
    [][/\ Cardinality(Live' \ Live) <= 1
       /\ last'.op = "accept"
             => /\ pending > 0
                /\ pending' = pending - 1
                /\ last'.token \in FreeTokens
                /\ Live' = Live \cup {last'.token}
                /\ connections'[last'.token] =
                      Connection_new(NewSocket, last'.token)
                /\ interest'[last'.token] = "readable"
                /\ OthersUntouched(last'.token)
       /\ last'.op = "accept_full" => pending > 0 /\ FreeTokens = {}
       /\ last'.op = "accept_none" => pending' = pending /\ Live' = Live]_vars

\* One connection has been accepted and another is still pending.
C9_Witness ==
    /\ last.op = "accept"
    /\ last.token \in Live
    /\ pending > 0

\* C10: in Writing the cursor stays within the limit; a write transmits only
\* bytes between the cursor and the limit; the bytes beyond the limit are
\* kept as they are, and are the buffer the connection goes on with when the
\* line has been sent.
C10_WriteStaysWithinLimit ==
    [][\A token \in SlabTokens :
          /\ (token \in Live' /\ St(token)'.tag = "Writing")
                => /\ St(token)'.pos <= St(token)'.limit
                   /\ St(token)'.limit <= Len(St(token)'.buf)
          /\ (last'.op = "write" /\ last'.token = token /\ token \in Live)
                => LET st == St(token)
                       n == Len(Sock(token)'.transmitted)
                               - Len(Sock(token).transmitted)
                   IN /\ st.tag = "Writing"
                      /\ st.pos + n <= st.limit
                      /\ Sock(token)'.transmitted =
                            Sock(token).transmitted
                               \o SubSeq(st.buf, st.pos + 1, st.pos + n)
                      /\ IF st.pos + n < st.limit
                         THEN St(token)' = [st EXCEPT !.pos = st.pos + n]
                         ELSE St(token)'.buf = BeyondLimit(st)]_vars

\* A line has been sent and the bytes beyond its limit, holding the next
\* line, are the new write buffer.
C10_Witness ==
    /\ last.op = "write"
    /\ last.token \in Live
    /\ St(last.token).tag = "Writing"
    /\ St(last.token).pos = 0
    /\ Len(St(last.token).buf) > St(last.token).limit
    /\ Sock(last.token).transmitted # <<>>

\* The bytes the step transmits to the client of token.
Transmits(token) ==
    Len(Sock(token)'.transmitted) - Len(Sock(token).transmitted)

\* C11: a connection starts in Reading with an empty accumulator.  It goes
\* from Reading to Writing only with a newline in the accumulator, and stays
\* in Reading when there is none; it leaves the line it is writing only when
\* the cursor has reached the limit; it leaves the Registry only as Closed,
\* by the zero-length read, with no interest armed again; and no connection
\* of the Registry is Closed, so nothing is done on a Closed connection.
C11_ConnectionStateMachine ==
    [][\A token \in SlabTokens :
          /\ (token \notin Live /\ token \in Live')
                => /\ last'.op = "accept"
                   /\ St(token)' = Reading(<<>>)
          /\ token \in Live' => St(token)'.tag \in {"Reading", "Writing"}
          /\ (token \in Live /\ token \in Live')
                => LET a == St(token)
                       b == St(token)'
                   IN /\ (a.tag = "Reading" /\ b.tag = "Writing")
                            => HasNewline(b.buf) /\ b.pos = 0
                      /\ (a.tag = "Reading" /\ b.tag = "Reading")
                            => ~HasNewline(b.buf)
                      /\ (a.tag = "Writing" /\ b # a)
                            => /\ last'.op = "write"
                               /\ IF a.pos + Transmits(token) = a.limit
                                  THEN b.tag = "Reading" \/ b.pos = 0
                                  ELSE b = [a EXCEPT !.pos = a.pos + Transmits(token)]
          /\ (token \in Live /\ token \notin Live' /\ status' = "running")
                => /\ last'.op = "read_eof"
                   /\ last'.token = token
                   /\ St(token).tag \in {"Reading", "Writing"}
                   /\ interest'[token] = "none"]_vars

\* A connection has gone through Reading, Writing and Reading again, and has
\* then been closed by the zero-length read.
C11_Witness ==
    /\ last.op = "read_eof"
    /\ last.token \notin Live
    /\ last.socket.transmitted # <<>>
    /\ Len(last.socket.received) > Len(last.socket.transmitted)

\* C12: between dispatches every connection of the Registry has one interest
\* armed, the one of its state: readable exactly when it is Reading, writable
\* exactly when it is Writing; none is left unarmed.
C12_ArmedInterestMatchesState ==
    \A token \in Live :
        /\ interest[token] \in {"readable", "writable"}
        /\ interest[token] = "readable" <=> St(token).tag = "Reading"
        /\ interest[token] = "writable" <=> St(token).tag = "Writing"

\* A read has found a newline, and the connection is armed for writing.
C12_Witness ==
    /\ last.op = "read"
    /\ last.token \in Live
    /\ St(last.token).tag = "Writing"
    /\ interest[last.token] = "writable"

\* The client handles registered with the event loop.
Registered == {token \in Tokens \ {SERVER} : interest[token] # "none"}

\* C13: between dispatches the live handles of the Registry are exactly the
\* client handles registered with the event loop; while the server runs,
\* accept adds one handle to both sets, reaping a Closed connection removes
\* one from both, and no other step changes either.
C13_RegistryMatchesRegistrations ==
    [][/\ Live = Registered
       /\ Live' = Registered'
       /\ status' = "running"
             => /\ last'.op = "accept"
                      => /\ last'.token \notin Live
                         /\ Live' = Live \cup {last'.token}
                /\ last'.op = "read_eof"
                      => /\ last'.token \in Live
                         /\ Live' = Live \ {last'.token}
                /\ last'.op \notin {"accept", "read_eof"}
                      => Live' = Live /\ Registered' = Registered]_vars

\* A connection has been reaped while another stays registered.
C13_Witness ==
    /\ last.op = "read_eof"
    /\ Live # {}
    /\ Live = Registered
    /\ last.token \notin Registered

\* C14: the dispatch in which a connection becomes Closed removes it from the
\* Registry; between dispatches no connection of the Registry is Closed, and
\* every client handle with an event armed is live and Reading or Writing, so
\* the handler's Closed branch is never reached.
C14_ClosedIsReapedInSameDispatch ==
    [][/\ last'.op = "read_eof"
             => /\ last'.token \in Live
                /\ last'.token \notin Live'
       /\ \A token \in Live' : St(token)'.tag # "Closed"
       /\ \A token \in Registered' :
             /\ token \in Live'
             /\ St(token)'.tag \in {"Reading", "Writing"}]_vars

\* A connection whose lines were all echoed has been closed and reaped.
C14_Witness ==
    /\ last.op = "read_eof"
    /\ last.token \notin Live
    /\ interest[last.token] = "none"
    /\ HasNewline(last.socket.received)
    /\ last.socket.transmitted = last.socket.received

\* The 0-based position of the first newline of s, for s with a newline.
FirstNewline(s) ==
    (CHOOSE i \in 1 .. Len(s) :
        s[i] = NL /\ \A j \in 1 .. (i - 1) : s[j] # NL) - 1

\* C15: the write that transmits the rest of a line while the bytes beyond
\* the limit hold a newline at position q leaves the connection in Writing
\* over those bytes, with cursor 0 and limit q+1, and arms writable interest;
\* a connection in Writing with a newline beyond the limit stays in Writing
\* and is changed by writes only, so no readable event comes between the
\* buffered lines.
C15_PipelinedLineGoesStraightToWriting ==
    [][\A token \in Live :
          /\ (CompletesLine(token) /\ HasNewline(BeyondLimit(St(token))))
                => /\ St(token)' = Writing(BeyondLimit(St(token)), 0,
                                     FirstNewline(BeyondLimit(St(token))) + 1)
                   /\ interest'[token] = "writable"
          /\ (/\ St(token).tag = "Writing"
              /\ HasNewline(BeyondLimit(St(token)))
              /\ token \in Live')
                => /\ St(token)'.tag = "Writing"
                   /\ St(token)' # St(token) => last'.op = "write"
                   /\ Sock(token)'.received = Sock(token).received]_vars

\* A line has been transmitted and the next one, which was buffered with it,
\* is about to be written from its first byte.
C15_Witness ==
    /\ last.op = "write"
    /\ last.token \in Live
    /\ St(last.token).tag = "Writing"
    /\ St(last.token).pos = 0
    /\ St(last.token).limit >= 2
    /\ St(last.token).buf[St(last.token).limit] = NL
    /\ Sock(last.token).transmitted # <<>>
    /\ Sock(last.token).transmitted[Len(Sock(last.token).transmitted)] = NL
    /\ interest[last.token] = "writable"

ReadOps == {"read", "read_eof", "read_wouldblock", "read_err"}
WriteOps == {"write", "write_wouldblock", "write_err"}

\* C16: with one-shot registrations, the event delivered to a connection is
\* the interest it armed last, and that interest is the one of its state: a
\* read is dispatched only to a Reading connection armed readable, a write
\* only to a Writing connection armed writable.  So the process panics only
\* for a full Slab or an I/O error, never for an assertion on the event kind.
C16_EventKindMatchesState ==
    [][/\ last'.op \in ReadOps
             => /\ St(last'.token).tag = "Reading"
                /\ interest[last'.token] = "readable"
       /\ last'.op \in WriteOps
             => /\ St(last'.token).tag = "Writing"
                /\ interest[last'.token] = "writable"
       /\ \A token \in Live :
             /\ interest[token] = "readable" => St(token).tag = "Reading"
             /\ interest[token] = "writable" => St(token).tag = "Writing"
       /\ status' = "panicked"
             => last'.op \in {"accept_full", "read_err", "write_err"}]_vars

\* A partial write: the connection is still Writing, armed writable again.
C16_Witness ==
    /\ last.op = "write"
    /\ status = "running"
    /\ last.token \in Live
    /\ St(last.token).tag = "Writing"
    /\ St(last.token).pos > 0
    /\ interest[last.token] = "writable"

\* C17: an event is armed only for a live handle, so every dispatch for a
\* client handle finds it in the Registry; a handle that leaves the Registry
\* has no event armed any more, and accept hands out only a handle that is
\* neither live nor armed, so a connection accepted under a reused handle
\* never gets an event of the connection that held the handle before.
C17_NoEventForReapedHandle ==
    [][/\ Registered \subseteq Live
       /\ Registered' \subseteq Live'
       /\ last'.op \in (ReadOps \cup WriteOps)
             => /\ last'.token # SERVER
                /\ last'.token \in Live
       /\ \A token \in Live \ Live' : interest'[token] = "none"
       /\ last'.op = "accept"
             => /\ last'.token \notin Live
                /\ interest[last'.token] = "none"
                /\ connections'[last'.token] =
                       Connection_new(NewSocket, last'.token)
                /\ interest'[last'.token] = "readable"]_vars

\* Every handle is live, and one connection more than the Slab holds has been
\* accepted: a handle was reaped and accepted again.
C17_Witness ==
    /\ last.op = "accept"
    /\ Live = SlabTokens
    /\ pending = 0
    /\ clientSteps = MaxClientSteps - (Capacity + 2)
    /\ \A token \in Live :
          /\ Sock(token) = NewSocket
          /\ St(token) = Reading(<<>>)
          /\ interest[token] = "readable"

\* C18: a read or a write that would block leaves every connection as it
\* was, state tag, buffer, cursor, limit and socket, so nothing is
\* transmitted or received, and arms again the interest that was armed
\* before the event; the server runs on.
C18_WouldBlockChangesNothing ==
    [][last'.op \in {"read_wouldblock", "write_wouldblock"}
          => /\ last'.token \in Live
             /\ interest[last'.token] # "none"
             /\ connections' = connections
             /\ interest' = interest
             /\ status' = "running"
             /\ pending' = pending]_vars

\* A write would block in the middle of a line.
C18_Witness ==
    /\ last.op = "write_wouldblock"
    /\ last.token \in Live
    /\ St(last.token).tag = "Writing"
    /\ St(last.token).pos > 0
    /\ St(last.token).pos < St(last.token).limit
    /\ interest[last.token] = "writable"

\* C19: a readiness event for a client handle changes only the connection of
\* that handle: every other connection keeps its state, buffer, socket,
\* registration and Registry entry.
C19_EventTouchesOnlyItsConnection ==
    [][\A token \in Tokens :
          (last'.op \in (ReadOps \cup WriteOps) /\ last'.token = token)
             => /\ OthersUntouched(token)
                /\ Live' \ {token} = Live \ {token}]_vars

\* The same, for the events whose socket call does not fail.
C19_SuccessfulEventTouchesOnlyItsConnection ==
    [][\A token \in Tokens :
          (/\ last'.op \in (ReadOps \cup WriteOps) \ {"read_err", "write_err"}
           /\ last'.token = token)
             => /\ OthersUntouched(token)
                /\ Live' \ {token} = Live \ {token}
                /\ interest'[SERVER] = interest[SERVER]
                /\ pending' = pending
                /\ status' = status]_vars

\* C20: between dispatches the accumulator of a connection in Reading holds
\* no newline; a connection whose buffer holds a newline is in Writing, and
\* the line it writes ends at that buffer's first newline.
C20_ReadingHoldsNoNewline ==
    \A token \in Live :
        /\ St(token).tag = "Reading" => ~HasNewline(St(token).buf)
        /\ HasNewline(St(token).buf)
              => /\ St(token).tag = "Writing"
                 /\ St(token).limit = FirstNewline(St(token).buf) + 1

\* One read has left a whole line and the start of the next in the buffer.
C20_Witness ==
    /\ last.op = "read"
    /\ last.token \in Live
    /\ St(last.token).tag = "Writing"
    /\ St(last.token).pos = 0
    /\ Len(St(last.token).buf) > St(last.token).limit
    /\ Sock(last.token).transmitted = <<>>

====
